---- MODULE Spec2Model ----
(***************************************************************************)
(* A model of qutip/superop_reps.py (conversion between the Super, Choi    *)
(* and Kraus representations of a quantum map) and qutip/tensor.py         *)
(* (tensor, super_tensor, composite).                                      *)
(*                                                                         *)
(* A Qobj is a record; objs is the heap of the Qobj the caller holds, an   *)
(* object's oid its index there (0: an object built during the call).      *)
(* data is a term: <<"mat", M>> is a concrete matrix M (rows of complex    *)
(* numbers <<re, im>>), and the kernels of the surrounding library that    *)
(* the two files only call (kron, reshuffle, spre/spost, dag, tidyup, eig) *)
(* build the terms <<"kron", a, b>>, <<"reshuffle", a>>, ...               *)
(* dataRef and dimsRef name the storage data and dims live in (0: storage  *)
(* allocated during the call).                                             *)
(***************************************************************************)
EXTENDS Integers, Sequences, FiniteSets, TLC

VARIABLES objs, pre, call, result, auto_tidyup, trace, kraus_list

vars == <<objs, pre, call, result, auto_tidyup, trace, kraus_list>>

\* ------------------------------------------------------------------ bounds
MaxDim == 2
MaxSeed == 26
MaxChain == 3
MaxArgs == 3
MaxKraus == 2
MaxKrausSeed == 8
PeDen == 4

\* --------------------------------------------------------- complex numbers
CZero == <<0, 0>>

CAdd(a, b) == <<a[1] + b[1], a[2] + b[2]>>

CMul(a, b) == <<a[1] * b[1] - a[2] * b[2], a[1] * b[2] + a[2] * b[1]>>

CConj(a) == <<a[1], 0 - a[2]>>

\* ---------------------------------------------------------------- matrices
NRows(M) == Len(M)

NCols(M) == Len(M[1])

MatAdd(A, B) == [i \in 1..NRows(A) |-> [j \in 1..NCols(A) |-> CAdd(A[i][j], B[i][j])]]

MatMul(A, B) ==
    LET RECURSIVE dot(_, _, _)
        dot(i, j, k) == IF k = 0 THEN CZero
                        ELSE CAdd(dot(i, j, k - 1), CMul(A[i][k], B[k][j]))
    IN [i \in 1..NRows(A) |-> [j \in 1..NCols(B) |-> dot(i, j, NCols(A))]]

\* op.H : the conjugate transpose of a numpy matrix
MatH(A) == [i \in 1..NCols(A) |-> [j \in 1..NRows(A) |-> CConj(A[j][i])]]

\* op[:, c] of a numpy matrix: column c (0-based) as a d x 1 matrix
MatCol(A, c) == [i \in 1..NRows(A) |-> <<A[i][c + 1]>>]

\* op[r, :] of a numpy matrix: row r (0-based) as a 1 x d matrix
MatRow(A, r) == <<A[r + 1]>>

\* sqrt(data.shape[0]) for the d^2 x d^2 data of a super-operator
SqrtShape(n) == CHOOSE d \in 0..n : d * d = n

\* ------------------------------------------------------------------- Qobj
PyTrue == "True"
PyFalse == "False"
PyNone == "None"
Tri == {PyTrue, PyFalse, PyNone}

\* Qobj(inpt=..., dims=...): a new object in storage of its own
Qobj(data, dims, type, superrep) ==
    [oid |-> 0, type |-> type, superrep |-> superrep, isherm |-> PyNone,
     data |-> data, dataRef |-> 0, dims |-> dims, dimsRef |-> 0]

\* an attribute written on q reaches the heap when q is an object of the heap
Store(h, q) == IF q.oid = 0 THEN h ELSE [h EXCEPT ![q.oid] = q]

IsMat(t) == t[1] = "mat"

Mat(M) == <<"mat", M>>

\* ----------------------------------------------------- Super <-> Choi reshape
\* the axes of transpose(3, 1, 2, 0)
ChoiAxesCyclic == <<1, 2, 3, 0>>

ChoiAxesReversed == <<3, 2, 1, 0>>

ChoiAxes == <<3, 1, 2, 0>>

Idx(d) == (0..(d - 1)) \X (0..(d - 1)) \X (0..(d - 1)) \X (0..(d - 1))

\* data.reshape([d] * 4): the row-major 4-index view
Reshape4(M, d) == [i \in Idx(d) |-> M[d * i[1] + i[2] + 1][d * i[3] + i[4] + 1]]

\* A.transpose(axes): axis k of the result is axis axes[k] of A
Transpose4(A, d, axes) ==
    [i \in Idx(d) |->
        A[ [m \in 1..4 |-> i[CHOOSE k \in 1..4 : axes[k] = m - 1]] ]]

\* A.reshape(shape): back to d^2 x d^2, row-major
Flatten4(A, d) ==
    [r \in 1..(d * d) |-> [c \in 1..(d * d) |->
        A[<<(r - 1) \div d, (r - 1) % d, (c - 1) \div d, (c - 1) % d>>]]]

ReshapeTranspose(M) ==
    LET d == SqrtShape(NRows(M))
    IN Flatten4(Transpose4(Reshape4(M, d), d, ChoiAxes), d)

\* the new object has the dims, and so the type, of q_oper; its callers tag it
super_tofrom_choi(q) ==
    Qobj(IF IsMat(q.data) THEN Mat(ReshapeTranspose(q.data[2]))
         ELSE <<"reshape3120", q.data>>,
         q.dims, q.type, PyNone)

super_to_choi(h, q) ==
    LET r == [super_tofrom_choi(q) EXCEPT !.superrep = "choi"]
    IN [obj |-> r, heap |-> Store(h, r)]

choi_to_super(h, q) ==
    LET s == super_to_choi(h, q)
        r == [s.obj EXCEPT !.superrep = "super"]
    IN [obj |-> r, heap |-> Store(s.heap, r)]

\* ------------------------------------------------------- outcome of a call
\* kind: "obj" (val = <<the object>>), "list" (val = the list), "none" (the call
\* returned None) or "error" (err = the exception class, msg = its arguments);
\* heap = the caller's objects after the call
Return(q, h) == [kind |-> "obj", err |-> "", msg |-> <<>>, val |-> <<q>>, heap |-> h]

ReturnList(l, h) == [kind |-> "list", err |-> "", msg |-> <<>>, val |-> l, heap |-> h]

ReturnNone(h) == [kind |-> "none", err |-> "", msg |-> <<>>, val |-> <<>>, heap |-> h]

Raise(e, m, h) == [kind |-> "error", err |-> e, msg |-> m, val |-> <<>>, heap |-> h]

\* the record of the call made: its name, how the operands were passed, their oids
NoCallRec == [op |-> "", form |-> "", args |-> <<>>]

NoCall == [kind |-> "nocall", err |-> "", msg |-> <<>>, val |-> <<>>, heap |-> <<>>]

\* ------------------------------------------- kernels of the object model
\* the side of the (square) matrix a data term stands for
RECURSIVE Side(_)
Side(t) ==
    CASE t[1] = "mat" -> NRows(t[2])
      [] t[1] = "kron" -> Side(t[2]) * Side(t[3])
      [] t[1] = "sprepost" -> Side(t[2]) * Side(t[2])
      [] OTHER -> Side(t[2])

\* spre(q) * spost(q.dag()): the unitary channel of the operator q
SprePost(q) ==
    Qobj(<<"sprepost", q.data>>,
         <<<<q.dims[1], q.dims[1]>>, <<q.dims[2], q.dims[2]>>>>, "super", "super")

\* choi_to_kraus: one operator sqrt(val) * vec2mat(vec) per eigenpair of eig;
\* the list stands as one term
choi_to_kraus(q) ==
    LET d == SqrtShape(Side(q.data))
    IN <<Qobj(<<"sqrt_eigval_vec2mat", q.data>>, <<<<d>>, <<d>>>>, "oper", PyNone)>>

\* ------------------------------------------------------------ Kraus -> Choi
RECURSIVE SumMats(_)
SumMats(ms) == IF Len(ms) = 1 THEN ms[1] ELSE MatAdd(SumMats(SubSeq(ms, 1, Len(ms) - 1)), ms[Len(ms)])

RECURSIVE Concat(_)
Concat(ss) == IF ss = <<>> THEN <<>> ELSE Head(ss) \o Concat(Tail(ss))

\* numpy hstack: concatenate the arrays of tup along their second axis
Hstack(tup) == [a \in 1..Len(tup[1]) |-> Concat([t \in 1..Len(tup) |-> tup[t][a]])]

\* op[:, c_ix] * array([op.H[r_ix, :]]): column c of op times row r of op.H
KrausBlockNoConj(op, c_ix, r_ix) ==
    MatMul(MatCol(op, c_ix),
           MatRow([i \in 1..NCols(op) |-> [j \in 1..NRows(op) |-> op[j][i]]], r_ix))

KrausBlock(op, c_ix, r_ix) == MatMul(MatCol(op, c_ix), MatRow(MatH(op), r_ix))

choi_blocks(kraus_mat_list) ==
    LET op_len == Len(kraus_mat_list[1])
    IN [c \in 1..op_len |-> [r \in 1..op_len |->
          SumMats([k \in 1..Len(kraus_mat_list) |->
                      KrausBlock(kraus_mat_list[k], c - 1, r - 1)])]]

kraus_to_choi(kl) ==
    LET kraus_mat_list == [k \in 1..Len(kl) |-> kl[k].data[2]]
    IN Qobj(Mat(Hstack(Hstack(choi_blocks(kraus_mat_list)))),
            <<kl[1].dims, kl[1].dims>>, "super", "choi")

kraus_to_super(h, kl) == choi_to_super(h, kraus_to_choi(kl))

\* ------------------------------------------------------- public conversions
to_choi(h, q) ==
    IF q.type = "super"
    THEN IF q.superrep = "choi" THEN Return(q, h)
         ELSE IF q.superrep = "super"
              THEN LET s == super_to_choi(h, q) IN Return(s.obj, s.heap)
              ELSE Raise("TypeError", <<q.superrep>>, h)
    ELSE IF q.type = "oper"
         THEN LET s == super_to_choi(h, SprePost(q)) IN Return(s.obj, s.heap)
         \* "... superrep = {0.choi} ...".format(q_oper): a Qobj has no attribute choi
         ELSE Raise("AttributeError", <<"choi">>, h)

to_super(h, q) ==
    IF q.type = "super"
    THEN IF q.superrep = "super" THEN Return(q, h)
         ELSE IF q.superrep = "choi"
              THEN LET s == choi_to_super(h, q) IN Return(s.obj, s.heap)
              ELSE ReturnNone(h)
    ELSE IF q.type = "oper"
         THEN Return(SprePost(q), h)
         ELSE Raise("TypeError",
                    <<"Conversion to supermatrix not supported", q.type, q.superrep>>, h)

to_kraus(h, q) ==
    IF q.type = "super"
    THEN IF q.superrep = "super"
         THEN LET c == to_choi(h, q) IN ReturnList(choi_to_kraus(c.val[1]), c.heap)
         ELSE IF q.superrep = "choi"
              THEN ReturnList(choi_to_kraus(q), h)
              ELSE ReturnNone(h)
    ELSE IF q.type = "oper"
         THEN ReturnList(<<q>>, h)
         ELSE Raise("TypeError",
                    <<"Conversion to Kraus decomposition not supported", q.type, q.superrep>>, h)

\* ----------------------------------------------------------------- tensor
\* isinstance(q, Qobj): the model's other values are an int and None
IsQobj(q) == q.type \notin {"int", "NoneType"}

NoneObj ==
    [oid |-> 0, type |-> "NoneType", superrep |-> PyNone, isherm |-> PyNone,
     data |-> <<"none">>, dataRef |-> 0, dims |-> <<>>, dimsRef |-> 0]

\* sp.kron(a, b, format='csr')
Kron(a, b) == <<"kron", a, b>>

\* what Qobj.tidyup leaves in the storage it works on, in place
Tidy(t) == IF t[1] = "tidy" THEN t ELSE <<"tidy", t>>

\* q.isherm: the cached flag, or what the object model resolves an unknown one
\* to: rd[q.oid] is True, False, or None where it stays unresolved. The flag of
\* an object built during the call is read only for results that are rebuilt.
ReadHerm(q, rd) ==
    IF q.isherm # PyNone THEN q.isherm
    ELSE IF q.oid \in DOMAIN rd THEN rd[q.oid] ELSE PyNone

\* the resolved flag is cached on the object
CacheHerm(h, q, rd) ==
    IF q.oid \in DOMAIN rd /\ h[q.oid].isherm = PyNone /\ rd[q.oid] # PyNone
    THEN [h EXCEPT ![q.oid].isherm = rd[q.oid]]
    ELSE h

\* out.tidyup(): in place on the storage of out.data, whoever else holds it
Tidyup(h, out) ==
    [out |-> [out EXCEPT !.data = Tidy(@)],
     heap |-> [i \in 1..Len(h) |->
                 IF out.dataRef # 0 /\ h[i].dataRef = out.dataRef
                 THEN [h[i] EXCEPT !.data = Tidy(@)] ELSE h[i]]]

\* if not out.isherm: out._isherm = None
ResetHermKeepFalse(flag) == flag

ResetHerm(flag) == IF flag # PyTrue THEN PyNone ELSE flag

\* out = Qobj(): the empty object, its superrep that of a first super-operator
EmptyOut(qlist) ==
    [Qobj(Mat(<<<<CZero>>>>), <<<<1>>, <<1>>>>, "oper", PyNone)
        EXCEPT !.superrep = IF qlist[1].type = "super" THEN qlist[1].superrep ELSE @,
               !.isherm = PyTrue]

\* the loop over qlist, after its first n operands; type follows dims
RECURSIVE TensorLoop(_, _, _, _)
TensorLoop(h, qlist, rd, n) ==
    IF n = 0 THEN [out |-> EmptyOut(qlist), heap |-> h]
    ELSE LET p == TensorLoop(h, qlist, rd, n - 1)
             o == p.out
             q == qlist[n]
             read == o.isherm = PyTrue
         IN [out |-> [o EXCEPT
                        !.data = IF n = 1 THEN q.data ELSE Kron(o.data, q.data),
                        !.dataRef = IF n = 1 THEN q.dataRef ELSE 0,
                        !.dims = IF n = 1 THEN q.dims
                                 ELSE <<o.dims[1] \o q.dims[1], o.dims[2] \o q.dims[2]>>,
                        !.dimsRef = IF n = 1 THEN q.dimsRef ELSE 0,
                        !.type = IF n = 1 THEN q.type ELSE @,
                        !.isherm = IF read THEN ReadHerm(q, rd) ELSE @],
             heap |-> IF read THEN CacheHerm(p.heap, q, rd) ELSE p.heap]

\* the representations of the operands must agree: checked when the first
\* operand is a super-operator
SuperrepClash(qlist) ==
    qlist[1].type = "super" /\ \E n \in 1..Len(qlist) : qlist[n].superrep # qlist[1].superrep

\* tensor(*args) (form "args") and tensor(args) (form "list")
tensor(h, args, form, rd) ==
    IF form = "args" /\ args = <<>>
    THEN Raise("TypeError", <<"Requires at least one input argument">>, h)
    ELSE IF form = "args" /\ Len(args) = 1 /\ IsQobj(args[1])
    THEN Return(args[1], h)
    ELSE IF \E n \in 1..Len(args) : ~IsQobj(args[n])
    THEN Raise("TypeError", <<"One of inputs is not a quantum object">>, h)
    ELSE IF args = <<>>
    THEN Raise("IndexError", <<"list index out of range">>, h)
    ELSE IF SuperrepClash(args)
    THEN Raise("TypeError", <<"In tensor products of superroperators, all must have the same representation">>, h)
    ELSE LET p == TensorLoop(h, args, rd, Len(args))
             out == [p.out EXCEPT !.isherm = ResetHerm(@)]
         IN IF auto_tidyup
            THEN LET t == Tidyup(p.heap, out) IN Return(t.out, t.heap)
            ELSE Return(out, p.heap)

\* ----------------------------------------------------------- super_tensor
\* qutip.permute.reshuffle: an involution on the data, a new object
reshuffle(q) ==
    Qobj(IF q.data[1] = "reshuffle" THEN q.data[2] ELSE <<"reshuffle", q.data>>,
         q.dims, q.type, q.superrep)

\* q.dag(): the adjoint, a new object
dag(q) ==
    Qobj(IF q.data[1] = "dag" THEN q.data[2] ELSE <<"dag", q.data>>,
         <<q.dims[2], q.dims[1]>>,
         CASE q.type = "ket" -> "bra"
           [] q.type = "bra" -> "ket"
           [] q.type = "operator-ket" -> "operator-bra"
           [] q.type = "operator-bra" -> "operator-ket"
           [] OTHER -> q.type,
         q.superrep)

\* all(P(arg) for arg in args) where P reads an attribute of a Qobj
AllAttr(args, P(_)) ==
    IF \A n \in 1..Len(args) : IsQobj(args[n]) /\ P(args[n]) THEN "True"
    ELSE LET n == CHOOSE m \in 1..Len(args) :
                     /\ ~(IsQobj(args[m]) /\ P(args[m]))
                     /\ \A l \in 1..(m - 1) : IsQobj(args[l]) /\ P(args[l])
         IN IF IsQobj(args[n]) THEN "False" ELSE "AttributeError"

issuper(q) == q.type = "super"

isoperket(q) == q.type = "operator-ket"

isoperbra(q) == q.type = "operator-bra"

isoper(q) == q.type = "oper"

isket(q) == q.type = "ket"

isbra(q) == q.type = "bra"

\* reshuffle the operands, tensor them, reshuffle the product
ShuffleTensor(h, args, rd, setrep) ==
    LET shuffled_ops == [n \in 1..Len(args) |-> reshuffle(args[n])]
        shuffled_tensor == tensor(h, shuffled_ops, "list", rd)
    IN IF shuffled_tensor.kind = "error" THEN shuffled_tensor
       ELSE LET out == reshuffle(shuffled_tensor.val[1])
            IN Return(IF setrep THEN [out EXCEPT !.superrep = args[1].superrep] ELSE out,
                      shuffled_tensor.heap)

DagResult(r) == IF r.kind = "obj" THEN Return(dag(r.val[1]), r.heap) ELSE r

AttrError(h) == Raise("AttributeError", <<"no such attribute">>, h)

AllSuperrepSuperUnchecked(args) == TRUE

AllSuperrepSuper(args) == \A n \in 1..Len(args) : args[n].superrep = "super"

RECURSIVE super_tensor(_, _, _, _)
super_tensor(h, args, form, rd) ==
    IF form = "args" /\ args = <<>>
    THEN Raise("IndexError", <<"tuple index out of range">>, h)
    ELSE LET s == AllAttr(args, issuper)
             k == AllAttr(args, isoperket)
             b == AllAttr(args, isoperbra)
         IN IF s = "AttributeError" THEN AttrError(h)
            ELSE IF s = "True"
            THEN IF ~AllSuperrepSuper(args)
                 THEN Raise("TypeError", <<"super_tensor on type='super' is only implemented for superrep='super'.">>, h)
                 ELSE ShuffleTensor(h, args, rd, TRUE)
            ELSE IF k = "AttributeError" THEN AttrError(h)
            ELSE IF k = "True" THEN ShuffleTensor(h, args, rd, FALSE)
            ELSE IF b = "AttributeError" THEN AttrError(h)
            ELSE IF b = "True"
            THEN DagResult(super_tensor(h, [n \in 1..Len(args) |-> dag(args[n])], "args", rd))
            ELSE Raise("TypeError", <<"All arguments must be the same type, either super, operator-ket or operator-bra.">>, h)

\* -------------------------------------------------------------- composite
isoperlike(q) == isoper(q) \/ issuper(q)

isketlike(q) == isket(q) \/ isoperket(q)

isbralike(q) == isbra(q) \/ isoperbra(q)

\* operator_to_vector(ket2dm(q)): the projector of a ket, vectorized
KetToOperKet(q) ==
    Qobj(<<"vec_ket2dm", q.data>>, <<<<q.dims[1], q.dims[1]>>, <<1>>>>, "operator-ket", PyNone)

\* map(to_super, args), one call after the other
RECURSIVE MapToSuper(_, _)
MapToSuper(h, args) ==
    IF args = <<>> THEN [list |-> <<>>, heap |-> h]
    ELSE LET r == to_super(h, Head(args))
             rest == MapToSuper(r.heap, Tail(args))
         IN [list |-> <<IF r.kind = "obj" THEN r.val[1] ELSE NoneObj>> \o rest.list,
             heap |-> rest.heap]

\* the operands composite hands to super_tensor when one is a super-operator
PromoteNone(h, args) == [list |-> args, heap |-> h]

Promote(h, args) == MapToSuper(h, args)

RECURSIVE composite(_, _, _)
composite(h, args, rd) ==
    IF \E n \in 1..Len(args) : ~IsQobj(args[n])
    THEN Raise("TypeError", <<"All arguments must be Qobjs.">>, h)
    ELSE IF \A n \in 1..Len(args) : isoperlike(args[n])
    THEN IF \E n \in 1..Len(args) : issuper(args[n])
         THEN LET p == Promote(h, args) IN super_tensor(p.heap, p.list, "args", rd)
         ELSE tensor(h, args, "args", rd)
    ELSE IF \A n \in 1..Len(args) : isketlike(args[n])
    THEN IF \E n \in 1..Len(args) : isoperket(args[n])
         THEN super_tensor(h, [n \in 1..Len(args) |->
                                  IF isoperket(args[n]) THEN args[n] ELSE KetToOperKet(args[n])],
                           "args", rd)
         ELSE tensor(h, args, "args", rd)
    ELSE IF \A n \in 1..Len(args) : isbralike(args[n])
    THEN DagResult(composite(h, [n \in 1..Len(args) |-> dag(args[n])], rd))
    ELSE Raise("TypeError", <<"Unsupported Qobj types">> \o [n \in 1..Len(args) |-> args[n].type], h)

\* ---------------------------------------------------------------- fixtures
\* a real number x stands as the integer x * FixOne; pe ranges over 0, 1/PeDen, .. 1
FixOne == 2 * PeDen

Re(x) == <<x, 0>>

dep_super(pe) ==
    Qobj(Mat(<< <<Re(FixOne - pe \div 2), Re(0), Re(0), Re(pe \div 2)>>,
                <<Re(0), Re(FixOne - pe), Re(0), Re(0)>>,
                <<Re(0), Re(0), Re(FixOne - pe), Re(0)>>,
                <<Re(pe \div 2), Re(0), Re(0), Re(FixOne - pe \div 2)>> >>),
         <<<<2, 2>>, <<2, 2>>>>, "oper", PyNone)

dep_choi(pe) ==
    Qobj(Mat(<< <<Re(FixOne - pe \div 2), Re(0), Re(0), Re(FixOne - pe)>>,
                <<Re(0), Re(pe \div 2), Re(0), Re(0)>>,
                <<Re(0), Re(0), Re(pe \div 2), Re(0)>>,
                <<Re(FixOne - pe), Re(0), Re(0), Re(FixOne - pe \div 2)>> >>),
         <<<<2, 2>>, <<2, 2>>>>, "oper", PyNone)

PeValues == {2 * p : p \in 0..PeDen}

\* ------------------------------------------------------------------ inputs
\* the d^2 x d^2 matrices the conversions are tried on: seed 0 has pairwise
\* distinct entries, seeds 1.. are the matrix units, then multiples of seed 0
GenSuper(d, s) ==
    LET n == d * d
    IN [i \in 1..n |-> [j \in 1..n |->
          IF s = 0 THEN <<(i - 1) * n + j, j - i>>
          ELSE IF s <= n * n
               THEN (IF (i - 1) * n + j = s THEN <<1, 1>> ELSE CZero)
               ELSE <<((i - 1) * n + j) * (s - n * n + 1), i - j>>]]

SuperDims(d) == << << <<d>>, <<d>> >>, << <<d>>, <<d>> >> >>

InputSuper(data, d, rep) ==
    [oid |-> 1, type |-> "super", superrep |-> rep, isherm |-> PyNone,
     data |-> data, dataRef |-> 1, dims |-> SuperDims(d), dimsRef |-> 1]

InputSupers ==
    {InputSuper(Mat(GenSuper(d, s)), d, rep) :
        d \in 1..MaxDim, s \in 0..MaxSeed, rep \in {"super", "choi"}}
    \cup {InputSuper(dep_super(pe).data, 2, "super") : pe \in PeValues}

\* the d x d operators kraus_to_choi is tried on
KVals == << <<1, 0>>, <<0, 1>>, <<2, -1>> >>

Pow3(k) == IF k = 0 THEN 1 ELSE 3

GenOper(d, s) ==
    [i \in 1..d |-> [j \in 1..d |->
        LET p == (i - 1) * d + (j - 1)
        IN KVals[(((s \div Pow3(p % 2)) + (p \div 2)) % 3) + 1]]]

InputOper(d, s) ==
    [oid |-> 0, type |-> "oper", superrep |-> PyNone, isherm |-> PyNone,
     data |-> Mat(GenOper(d, s)), dataRef |-> 0, dims |-> <<<<d>>, <<d>>>>, dimsRef |-> 0]

RECURSIVE ListsOf(_, _)
ListsOf(S, n) ==
    IF n = 0 THEN {<<>>}
    ELSE LET shorter == ListsOf(S, n - 1)
         IN shorter \cup {Append(l, x) : l \in {m \in shorter : Len(m) = n - 1}, x \in S}

\* ---------------------------------------------- the objects the caller holds
PoolObj(oid, type, rep, herm, data, dims) ==
    [oid |-> oid, type |-> type, superrep |-> rep, isherm |-> herm,
     data |-> data, dataRef |-> oid, dims |-> dims, dimsRef |-> oid]

Pool ==
    << PoolObj(1, "oper", PyNone, PyTrue,
               Mat(<< <<Re(0), Re(1)>>, <<Re(1), Re(0)>> >>), <<<<2>>, <<2>>>>),
       PoolObj(2, "super", "super", PyTrue, dep_super(2).data, SuperDims(2)),
       PoolObj(3, "ket", PyNone, PyFalse,
               Mat(<< <<Re(1)>>, <<Re(0)>> >>), <<<<2>>, <<1>>>>),
       PoolObj(4, "oper", PyNone, PyNone,
               Mat(<< <<Re(0), <<0, -1>> >>, << <<0, 1>>, Re(0)>> >>), <<<<2>>, <<2>>>>),
       PoolObj(5, "super", "choi", PyNone, dep_choi(2).data, SuperDims(2)),
       PoolObj(6, "super", "chi", PyNone, dep_super(4).data, SuperDims(2)),
       PoolObj(7, "operator-ket", PyNone, PyFalse,
               Mat(<< <<Re(1)>>, <<Re(0)>>, <<Re(0)>>, <<Re(1)>> >>),
               << << <<2>>, <<2>> >>, <<1>> >>),
       PoolObj(8, "bra", PyNone, PyFalse,
               Mat(<< <<Re(0), Re(1)>> >>), <<<<1>>, <<2>>>>),
       PoolObj(9, "operator-bra", PyNone, PyFalse,
               Mat(<< <<Re(1), Re(0), Re(0), Re(1)>> >>),
               << <<1>>, << <<2>>, <<2>> >> >>),
       PoolObj(10, "int", PyNone, PyNone, <<"int">>, <<>>) >>

ArgLists == ListsOf(1..Len(Pool), MaxArgs)

Operands(l) == [n \in 1..Len(l) |-> objs[l[n]]]

\* the operands whose Hermiticity flag is unknown: reading it resolves it
Reads(h, l) ==
    [{l[n] : n \in {m \in 1..Len(l) : IsQobj(h[l[m]]) /\ h[l[m]].isherm = PyNone}} -> Tri]

Init ==
    /\ objs = Pool
    /\ pre = Pool
    /\ call = NoCallRec
    /\ result = NoCall
    /\ auto_tidyup \in BOOLEAN
    /\ trace = <<>>
    /\ kraus_list = <<>>

\* one call is made, on the objects of Init
Idle == result = NoCall

Call(op, form, l, out) ==
    /\ call' = [op |-> op, form |-> form, args |-> l]
    /\ pre' = objs
    /\ objs' = out.heap
    /\ result' = out
    /\ UNCHANGED <<auto_tidyup, trace, kraus_list>>

CallToChoi ==
    /\ Idle
    /\ \E i \in 1..Len(objs) :
        IsQobj(objs[i]) /\ Call("to_choi", "args", <<i>>, to_choi(objs, objs[i]))

CallToSuper ==
    /\ Idle
    /\ \E i \in 1..Len(objs) :
        IsQobj(objs[i]) /\ Call("to_super", "args", <<i>>, to_super(objs, objs[i]))

CallToKraus ==
    /\ Idle
    /\ \E i \in 1..Len(objs) :
        IsQobj(objs[i]) /\ Call("to_kraus", "args", <<i>>, to_kraus(objs, objs[i]))

CallTensor ==
    /\ Idle
    /\ \E l \in ArgLists, form \in {"args", "list"} : \E rd \in Reads(objs, l) :
        Call("tensor", form, l, tensor(objs, Operands(l), form, rd))

CallSuperTensor ==
    /\ Idle
    /\ \E l \in ArgLists, form \in {"args", "list"} : \E rd \in Reads(objs, l) :
        Call("super_tensor", form, l, super_tensor(objs, Operands(l), form, rd))

CallComposite ==
    /\ Idle
    /\ \E l \in ArgLists : \E rd \in Reads(objs, l) :
        Call("composite", "args", l, composite(objs, Operands(l), rd))

Next ==
    \/ CallToChoi
    \/ CallToSuper
    \/ CallToKraus
    \/ CallTensor
    \/ CallSuperTensor
    \/ CallComposite

Spec == Init /\ [][Next]_vars

\* ------------------------------------------- conversions, one after another
\* a new object the caller keeps: the next oid, in storage of its own
Keep(h, q) ==
    Append(h, [q EXCEPT !.oid = Len(h) + 1, !.dataRef = Len(h) + 1, !.dimsRef = Len(h) + 1])

ConvInit ==
    /\ \E x \in InputSupers : objs = <<x>>
    /\ trace = <<>>
    /\ pre = <<>>
    /\ call = NoCallRec
    /\ result = NoCall
    /\ auto_tidyup = TRUE
    /\ kraus_list = <<>>

Chain(op, i, out) ==
    /\ Len(trace) < MaxChain
    /\ LET fresh == out.kind = "obj" /\ out.val[1].oid = 0
           h == IF fresh THEN Keep(out.heap, out.val[1]) ELSE out.heap
       IN /\ objs' = h
          /\ trace' = Append(trace,
                 [op |-> op, arg |-> i, argv |-> objs[i], kind |-> out.kind,
                  ret |-> IF out.kind # "obj" THEN 0
                          ELSE IF fresh THEN Len(h) ELSE out.val[1].oid])
    /\ UNCHANGED <<pre, call, result, auto_tidyup, kraus_list>>

ChainToChoi == \E i \in 1..Len(objs) : Chain("to_choi", i, to_choi(objs, objs[i]))

ChainToSuper == \E i \in 1..Len(objs) : Chain("to_super", i, to_super(objs, objs[i]))

ConvNext == ChainToChoi \/ ChainToSuper

ConvSpec == ConvInit /\ [][ConvNext]_vars

\* ------------------------------------------------- Kraus lists to Choi form
KrausInit ==
    /\ \E d \in 1..MaxDim :
          kraus_list \in ListsOf({InputOper(d, s) : s \in 0..MaxKrausSeed}, MaxKraus) \ {<<>>}
    /\ objs = <<>>
    /\ trace = <<>>
    /\ pre = <<>>
    /\ call = NoCallRec
    /\ result = NoCall
    /\ auto_tidyup = TRUE

CallKrausToChoi ==
    /\ result = NoCall
    /\ result' = Return(kraus_to_choi(kraus_list), objs)
    /\ call' = [NoCallRec EXCEPT !.op = "kraus_to_choi"]
    /\ UNCHANGED <<objs, pre, auto_tidyup, trace, kraus_list>>

CallKrausToSuper ==
    /\ result = NoCall
    /\ LET s == kraus_to_super(objs, kraus_list) IN result' = Return(s.obj, s.heap)
    /\ call' = [NoCallRec EXCEPT !.op = "kraus_to_super"]
    /\ UNCHANGED <<objs, pre, auto_tidyup, trace, kraus_list>>

KrausNext == CallKrausToChoi \/ CallKrausToSuper

KrausSpec == KrausInit /\ [][KrausNext]_vars

\* ------------------------------------------------------------ properties
\* the calls of the trace that returned an object
Returned(k) == trace[k].kind = "obj"

\* call j converted the object call k returned
Fed(k, j) == k < j /\ Returned(k) /\ Returned(j) /\ trace[j].arg = trace[k].ret

RoundTrip(k, j, there, back, rep) ==
    (Fed(k, j) /\ trace[k].op = there /\ trace[j].op = back
        /\ trace[k].argv.superrep = rep)
    => LET x == trace[k].argv
           z == objs[trace[j].ret]
       IN /\ z.data = x.data
          /\ z.dims = x.dims
          /\ z.type = "super"
          /\ z.superrep = rep
          /\ objs[trace[k].arg] = x
          /\ objs[trace[j].arg] = trace[j].argv

\* C5: to_super(to_choi(X)) has the matrix and dims of a Super-tagged X and is
\* tagged Super, to_choi(to_super(C)) has the matrix of a Choi-tagged C and is
\* tagged Choi, and the objects converted are left as they were.
C5_Involution ==
    \A k \in 1..Len(trace), j \in 1..Len(trace) :
        /\ RoundTrip(k, j, "to_choi", "to_super", "super")
        /\ RoundTrip(k, j, "to_super", "to_choi", "choi")

C5_Witness ==
    \E k \in 1..Len(trace), j \in 1..Len(trace) :
        /\ Fed(k, j) /\ trace[k].op = "to_choi" /\ trace[j].op = "to_super"
        /\ trace[k].argv.superrep = "super"
        /\ trace[k].argv.data = Mat(GenSuper(2, 0))
        /\ objs[trace[k].ret].data # trace[k].argv.data
        /\ objs[trace[j].ret].data = trace[k].argv.data

\* C6: to_choi of a Super-tagged object with d^2 x d^2 matrix M returns the
\* Choi-tagged N with N[d*a+b, d*c+e] = M[d*e+b, d*c+a], and so takes the
\* depolarizing Super matrix to the depolarizing Choi matrix.
C6_Reshape ==
    \A k \in 1..Len(trace) :
        (Returned(k) /\ trace[k].op = "to_choi" /\ trace[k].argv.superrep = "super")
        => LET M == trace[k].argv.data[2]
               N == objs[trace[k].ret].data[2]
               d == SqrtShape(Len(M))
           IN /\ objs[trace[k].ret].superrep = "choi"
              /\ Len(N) = d * d
              /\ \A a, b, c, e \in 0..(d - 1) :
                    N[d * a + b + 1][d * c + e + 1] = M[d * e + b + 1][d * c + a + 1]
              /\ \A pe \in PeValues :
                    M = dep_super(pe).data[2] => N = dep_choi(pe).data[2]

C6_Witness ==
    \E k \in 1..Len(trace) :
        /\ Returned(k) /\ trace[k].op = "to_choi" /\ trace[k].argv.superrep = "super"
        /\ trace[k].argv.data = dep_super(2).data
        /\ objs[trace[k].ret].data = dep_choi(2).data
        /\ dep_choi(2).data # dep_super(2).data

\* sum over the list of A_k[i, c] * conj(A_k[j, r]) (indices from 0)
VecOuter(kl, i, c, j, r) ==
    LET RECURSIVE upto(_)
        upto(k) == IF k = 0 THEN CZero
                   ELSE CAdd(upto(k - 1),
                             CMul(kl[k].data[2][i + 1][c + 1],
                                  CConj(kl[k].data[2][j + 1][r + 1])))
    IN upto(Len(kl))

\* C10: kraus_to_choi returns a super-operator tagged Choi whose matrix is
\* the sum over the list of vec(A_k) vec(A_k)^H, column-stacking:
\* C[d*c+i, d*r+j] = sum_k A_k[i, c] * conj(A_k[j, r]); it is Hermitian.
C10_KrausToChoi ==
    (call.op = "kraus_to_choi" /\ result.kind = "obj")
    => LET q == result.val[1]
           C == q.data[2]
           d == Len(kraus_list[1].data[2])
       IN /\ q.type = "super" /\ q.superrep = "choi"
          /\ Len(C) = d * d
          /\ \A i, j, c, r \in 0..(d - 1) :
                C[d * c + i + 1][d * r + j + 1] = VecOuter(kraus_list, i, c, j, r)
          /\ C = MatH(C)

C10_Witness ==
    /\ call.op = "kraus_to_choi" /\ result.kind = "obj"
    /\ Len(kraus_list) = 2
    /\ Len(kraus_list[1].data[2]) = 2
    /\ kraus_list[1] # kraus_list[2]
    /\ \E a, b \in 1..4 : a # b /\ result.val[1].data[2][a][b][2] # 0

\* the operands of the call, as they were when it was made
Given == [n \in 1..Len(call.args) |-> pre[call.args[n]]]

Composed == call.op \in {"tensor", "super_tensor", "composite"}

Converted == call.op \in {"to_choi", "to_super", "to_kraus"}

TypeKindError == result.kind = "error" /\ result.err = "TypeError"

\* C1: to_choi, to_super and to_kraus fail with a TypeError naming the kind
\* or representation when the object is neither an operator nor a
\* super-operator, or is a super-operator tagged neither Super nor Choi.
C1_ConversionRejects ==
    (Converted /\ (Given[1].type \notin {"oper", "super"}
                    \/ (Given[1].type = "super" /\ Given[1].superrep \notin {"super", "choi"})))
    => /\ TypeKindError
       /\ \E n \in 1..Len(result.msg) : result.msg[n] \in {Given[1].type, Given[1].superrep}

\* C2: tensor on operands of which one is a super-operator fails with a
\* TypeError if and only if the operands do not all carry the same
\* representation tag.
C2_TensorSameRepresentation ==
    (call.op = "tensor" /\ (\A n \in 1..Len(Given) : IsQobj(Given[n]))
        /\ (\E n \in 1..Len(Given) : issuper(Given[n])))
    => (TypeKindError <=> \E m, n \in 1..Len(Given) : Given[m].superrep # Given[n].superrep)

\* C3: tensor(), super_tensor() and composite() with no operands fail with
\* the 'requires at least one input argument' error.
C3_EmptyInputRejected ==
    (Composed /\ call.form = "args" /\ call.args = <<>>)
    => /\ TypeKindError
       /\ result.msg = <<"Requires at least one input argument">>

\* C4: the data and dims of an object tensor, super_tensor or composite
\* builds are in storage of their own, shared with no operand, so that the
\* tidy-up of the result changes no operand's data. (A single bare operand
\* that tensor returns as it is is left aside here.)
C4_FreshStorage ==
    (Composed /\ result.kind = "obj" /\ result.val[1].oid = 0)
    => \A n \in 1..Len(Given) :
          /\ result.val[1].dataRef # Given[n].dataRef
          /\ result.val[1].dimsRef # Given[n].dimsRef
          /\ objs[call.args[n]].data = Given[n].data

\* a product was built: tensor returned, and not its single bare operand
Built ==
    /\ call.op = "tensor" /\ result.kind = "obj"
    /\ ~(call.form = "args" /\ Len(call.args) = 1)

\* the three-valued AND of flags, unknown poisoning
PoisonAnd(flags) ==
    IF \E n \in 1..Len(flags) : flags[n] = PyNone THEN PyNone
    ELSE IF \A n \in 1..Len(flags) : flags[n] = PyTrue THEN PyTrue ELSE PyFalse

\* C7 as stated: the flag of tensor's result is the three-valued AND of the
\* operands' flags with unknown poisoning (false when a flag is false and
\* none is unknown).
C7_PoisonAnd ==
    (call.op = "tensor" /\ result.kind = "obj")
    => result.val[1].isherm = PoisonAnd([n \in 1..Len(Given) |-> Given[n].isherm])

\* C7 amended: the flag of a product tensor builds is true exactly when every
\* operand's flag is true once read, and unknown otherwise: true when all
\* flags were true, unknown when one was false, never false. A single bare
\* operand is returned as it is.
C7_TrueOrUnknown ==
    /\ Built =>
          /\ result.val[1].isherm =
                IF \A n \in 1..Len(call.args) : objs[call.args[n]].isherm = PyTrue
                THEN PyTrue ELSE PyNone
          /\ (\A n \in 1..Len(Given) : Given[n].isherm = PyTrue)
                => result.val[1].isherm = PyTrue
          /\ (\E n \in 1..Len(Given) : Given[n].isherm = PyFalse)
                => result.val[1].isherm = PyNone
    /\ (call.op = "tensor" /\ result.kind = "obj" /\ ~Built)
          => result.val[1] = Given[1]

C7_Witness ==
    /\ Built /\ Len(Given) = 2
    /\ Given[1].isherm = PyTrue /\ Given[2].isherm = PyFalse
    /\ result.val[1].isherm = PyNone

\* to_super(a) as super_tensor receives it (None when to_super returns None)
Promoted(h, a) ==
    LET r == to_super(h, a) IN IF r.kind = "obj" THEN r.val[1] ELSE NoneObj

\* C8: on operator-like operands composite returns what super_tensor returns
\* on to_super of each operand, in order, when one is a super-operator, and
\* what tensor returns on the operands otherwise.
C8_Promotion ==
    (call.op = "composite" /\ \A n \in 1..Len(Given) : IsQobj(Given[n]) /\ isoperlike(Given[n]))
    => \E rd \in Reads(pre, call.args) :
          result = IF \E n \in 1..Len(Given) : issuper(Given[n])
                   THEN super_tensor(pre, [n \in 1..Len(Given) |-> Promoted(pre, Given[n])],
                                     "args", rd)
                   ELSE tensor(pre, Given, "args", rd)

C8_Witness ==
    /\ call.op = "composite" /\ call.args = <<1, 2>>
    /\ result.kind = "obj"
    /\ result.val[1].superrep = "super"
    /\ result.val[1].data =
          <<"reshuffle", <<"kron", <<"reshuffle", <<"sprepost", pre[1].data>>>>,
                                   <<"reshuffle", pre[2].data>>>>>>

Kinds(qs) == {qs[n].type : n \in 1..Len(qs)}

\* C9: super_tensor fails with a TypeError on super-operators of which one is
\* tagged Choi, and on operands that mix the kinds super-operator,
\* operator-ket and operator-bra.
C9_SuperTensorRejects ==
    (call.op = "super_tensor" /\ call.args # <<>>
        /\ \/ /\ Kinds(Given) = {"super"}
              /\ \E n \in 1..Len(Given) : Given[n].superrep = "choi"
           \/ /\ Kinds(Given) \subseteq {"super", "operator-ket", "operator-bra"}
              /\ Cardinality(Kinds(Given)) > 1)
    => TypeKindError

C9_Witness ==
    /\ call.op = "super_tensor" /\ call.args = <<2, 5>>
    /\ TypeKindError

====
